---- MODULE Spec2Model ----
(***************************************************************************)
(* Tracked memory of libvips (libvips/iofuncs/memory.c):                   *)
(* vips_tracked_malloc() / vips_tracked_free() and the three counters      *)
(* vips_tracked_allocs, vips_tracked_mem, vips_tracked_mem_highwater,      *)
(* guarded by vips_tracked_mutex.  Each thread runs the two functions one  *)
(* few source statements at a time; the read-modify-write of a counter is  *)
(* a load into a register, and a store in a later step.                    *)
(***************************************************************************)
EXTENDS Integers, Sequences, FiniteSets, TLC

\* ------------------------------------------------------------------ bounds
NThreads == 2
NAddrs == 2
SizeBits == 8
MaxCalls == 3
NPairs == 1

\* --------------------------------------------------------------- constants
NULL == 0
HEADER == 16

Threads == 1 .. NThreads

\* the threads that make the calls of the general workload
Callers == {1, 2}
Owners == {1}

\* size_t: an unsigned integer of SizeBits bits
SIZE_MAX == 2 ^ SizeBits - 1
SizeT(x) == x % (SIZE_MAX + 1)

\* the addresses g_try_malloc() can return, 2 * HEADER apart
Bases == {2 * HEADER * k : k \in 1 .. NAddrs}

\* the requested sizes tried: zero, the 100 bytes of the scenario, and a size
\* whose size + 16 does not fit a size_t; one byte for a block with an owner
BigSize == SIZE_MAX - 3
Sizes == {0, 100, BigSize}
OwnerSizes == {1}

\* the size each thread uses for its allocate / free pairs: distinct sizes
PairSizes == <<100, BigSize, 0>>
PairSize(t) == PairSizes[((t - 1) % Len(PairSizes)) + 1]

\* the bytes the external allocator can hand out at once: less than the
\* address space
HeapCap == SIZE_MAX

ErrOOM == "error: out of memory"
WarnOOM == "warn: out of memory"
WarnFrees == "warn: vips_free: too many frees"
WarnFree == "warn: vips_free: too much free"

VARIABLES
    \* memory.c:98-101
    vips_tracked_allocs, vips_tracked_mem, vips_tracked_mem_highwater,
    vips_tracked_mutex,
    \* memory.c:275, the GOnce: <<status, retval>>
    vips_tracked_once,
    \* GLib: the mutexes made by g_mutex_new(): mutex id -> holder (0: free)
    mutexes,
    \* the external allocator: blocks held, their sizes, the size_t at each base
    held, blksize, hdr, hdrset,
    \* VipsObject: alive, and the postclose handlers connected (their buf)
    alive, callbacks,
    \* per thread: position, arguments and locals of the running call
    pc, object, size, buf, s, reg, ret, msgs, pending,
    \* per thread: the size as the caller passed it (size itself is updated)
    req,
    \* the process was aborted by the allocator or by a NULL mutex
    aborted,
    \* history: payload pointers live, pointers passed to free, frees of a
    \* pointer that was not live, calls started; the successful allocations
    \* of the callers; allocations returned less frees done; the sum of
    \* size + 16 of the allocations before the first free; what each call
    \* touched; the counters before an allocation that no other call
    \* overlaps; the pairs left per thread
    live, freed, misuses, ncalls, nok, balance, reqsum, touched, snap, script,
    \* history: the size asked for each held block; per owner the pointers
    \* vips_tracked_malloc() returned for it and the pointers its handlers were
    \* run on; the pointers a caller freed
    want, given, fired, xfreed,
    \* history: the counters as they were when the mutex was last free
    committed

progvars == <<vips_tracked_allocs, vips_tracked_mem, vips_tracked_mem_highwater,
              vips_tracked_mutex, vips_tracked_once>>
extvars == <<mutexes, held, blksize, hdr, hdrset, alive, callbacks>>
thrvars == <<pc, object, size, buf, s, reg, ret, msgs, pending, req>>
histvars == <<aborted, live, freed, misuses, ncalls, nok, balance, reqsum,
              touched, snap, script, want, given, fired, xfreed, committed>>
vars == <<progvars, extvars, thrvars, histvars>>

NoSnap == [phase |-> "none", t |-> 0, mem |-> 0, allocs |-> 0, ptr |-> NULL]

InitCommon ==
    /\ vips_tracked_allocs = 0
    /\ vips_tracked_mem = 0
    /\ vips_tracked_mem_highwater = 0
    /\ vips_tracked_mutex = NULL
    /\ vips_tracked_once = <<"notcalled", NULL>>
    /\ mutexes = << >>
    /\ held = {}
    /\ blksize = [a \in Bases |-> 0]
    /\ hdr = [a \in Bases |-> 0]
    /\ hdrset = {}
    /\ alive = [o \in Owners |-> TRUE]
    /\ callbacks = [o \in Owners |-> << >>]
    /\ pc = [t \in Threads |-> "idle"]
    /\ object = [t \in Threads |-> NULL]
    /\ size = [t \in Threads |-> 0]
    /\ buf = [t \in Threads |-> NULL]
    /\ s = [t \in Threads |-> NULL]
    /\ reg = [t \in Threads |-> 0]
    /\ ret = [t \in Threads |-> NULL]
    /\ msgs = [t \in Threads |-> {}]
    /\ pending = [t \in Threads |-> << >>]
    /\ req = [t \in Threads |-> 0]
    /\ aborted = FALSE
    /\ live = {}
    /\ freed = {}
    /\ misuses = 0
    /\ ncalls = 0
    /\ nok = 0
    /\ balance = 0
    /\ reqsum = 0
    /\ touched = [t \in Threads |-> {}]
    /\ snap = NoSnap
    /\ want = [a \in Bases |-> 0]
    /\ given = [o \in Owners |-> << >>]
    /\ fired = [o \in Owners |-> << >>]
    /\ xfreed = {}
    /\ committed = [mem |-> 0, highwater |-> 0, allocs |-> 0]

Init == InitCommon /\ script = [t \in Threads |-> 0]

\* groups of variables for UNCHANGED
counters == <<vips_tracked_allocs, vips_tracked_mem, vips_tracked_mem_highwater>>
oncevars == <<vips_tracked_mutex, vips_tracked_once, mutexes>>
heap == <<held, blksize, hdr, hdrset>>
objs == <<alive, callbacks>>
args == <<object, size, buf, s, req, pending>>
hist == <<live, freed, misuses, ncalls, nok, balance, reqsum, script, want,
          given, fired, xfreed>>

\* the counters now
Counters == [mem |-> vips_tracked_mem, highwater |-> vips_tracked_mem_highwater,
             allocs |-> vips_tracked_allocs]

\* ------------------------------------------------------------ pure pieces

\* memory.c:286  size += 16, in size_t
AddHeader(n) == SizeT(n + HEADER)

\* memory.c:306  buf = (char *) buf + 16
PayloadOf(base) == base + HEADER

\* a free that takes the payload pointer for the base of the block
BaseOf_payload(p) == p

\* memory.c:221  s = (char *) s - 16
BaseOf(p) == p - HEADER

\* an allocation that counts the payload size, not the total
MemAdd_payload(m, n) == SizeT(m + n - HEADER)

\* memory.c:308  vips_tracked_mem += size, in size_t
MemAdd(m, n) == SizeT(m + n)

\* a free that leaves the byte count as it was
MemSub_none(m, n) == m

\* a free that takes off the payload size, not the stored total
MemSub_payload(m, n) == SizeT(m - (n - HEADER))

\* memory.c:229  vips_tracked_mem -= size, in size_t
MemSub(m, n) == SizeT(m - n)

\* a high-water mark assigned without the comparison
HighwaterAfter_always(m, hw) == m

\* memory.c:309-310  the high-water mark after vips_tracked_mem became m
HighwaterAfter(m, hw) == IF m > hw THEN m ELSE hw

\* a test that misses the count of zero
TooManyFrees_strict(allocs) == allocs < 0

\* memory.c:226  the test before the "too many frees" warning
TooManyFrees(allocs) == allocs <= 0

\* memory.c:230  the test before the "too much free" warning: m is a size_t
TooMuchFree(m) == m < 0

\* a failure reported on the error channel alone
OutOfMemory_erroronly == {ErrOOM}

\* memory.c:293-298  what a failed allocation reports
OutOfMemory == {ErrOOM, WarnOOM}

\* a lock that does not wait
CanLock_nowait(m) == TRUE

\* g_mutex_lock() returns once mutex m is free; locking NULL is undefined
CanLock(m) == m = NULL \/ mutexes[m] = 0

\* a lock that is returned from without the mutex
Lock_none(m, t) == mutexes

\* memory.c:224, 303  g_mutex_lock( m ) by thread t has returned
Lock(m, t) == [mutexes EXCEPT ![m] = t]

\* an unlock that is skipped when the count is not positive
Unlock_leak(m, t) ==
    IF vips_tracked_allocs <= 0 THEN mutexes
    ELSE [mutexes EXCEPT ![m] = IF @ = t THEN 0 ELSE @]

\* an unlock that leaves the mutex with its holder
Unlock_never(m, t) == mutexes

\* memory.c:235, 313  g_mutex_unlock( m ) by thread t
Unlock(m, t) == [mutexes EXCEPT ![m] = IF @ = t THEN 0 ELSE @]

\* the bytes held from the external allocator
RECURSIVE SumOver(_, _)
SumOver(f, S) ==
    IF S = {} THEN 0
    ELSE LET a == CHOOSE x \in S : TRUE IN f[a] + SumOver(f, S \ {a})

HeldBytes == SumOver(blksize, held)

Min(S) == CHOOSE x \in S : \A y \in S : x <= y

\* memory.c:288  g_try_malloc(n): NULL for n = 0 or when memory is short, else
\* a block not held (the lowest free address: the addresses are symmetric)
TryMalloc(n) ==
    {NULL} \cup
    (IF n = 0 \/ HeldBytes + n > HeapCap \/ Bases \ held = {}
     THEN {} ELSE {Min(Bases \ held)})

\* memory.c:222  size = *((size_t *) s): the header of a held block, else an
\* indeterminate value (a total that was there, or what the allocator wrote)
Indeterminate == {0} \cup {AddHeader(n) : n \in Sizes \cup OwnerSizes}

HeaderRead(a) == IF a \in hdrset THEN {hdr[a]} ELSE Indeterminate

InMalloc(t) == pc[t] \in {"m_new", "m_alloc", "m_fail", "m_lock", "m_mem_st",
    "m_hw", "m_cnt_st", "m_unlock", "m_connect"}

InFree(t) == pc[t] \in {"f_lock", "f_mem_st", "f_cnt_st", "f_unlock",
    "f_release"}

\* no call is in progress
Quiescent ==
    \A t \in Threads :
        pc[t] \in {"idle", "m_ret", "f_ret", "g_mem", "g_highwater", "g_allocs"}

\* the locals of a call end with it
Drop(f, t) == [f EXCEPT ![t] = 0]

\* the process is gone: no thread runs on
Aborted == [u \in Threads |-> "aborted"]

\* ------------------------------------------------- vips_tracked_malloc()

\* a g_once() that runs its function for every caller
OnceRuns_always(status) == TRUE

\* memory.c:279  g_once( &vips_tracked_once, ... ) runs the function for the
\* caller that finds the GOnce not yet called
OnceRuns(status) == status = "notcalled"

\* memory.c:272-280  vips_tracked_malloc( o, n ) is entered, and
\* vips_tracked_mutex = g_once( ... ): the first caller runs the function, a
\* caller that finds it running waits, the others get the value it returned
EnterMalloc(t, o, n) ==
    /\ o /= NULL => alive[o]
    /\ vips_tracked_once[1] /= "progress"
    /\ IF OnceRuns(vips_tracked_once[1])
       THEN /\ vips_tracked_once' = <<"progress", NULL>>
            /\ pc' = [pc EXCEPT ![t] = "m_new"]
            /\ vips_tracked_mutex' = vips_tracked_mutex
       ELSE /\ vips_tracked_once' = vips_tracked_once
            /\ pc' = [pc EXCEPT ![t] = "m_alloc"]
            /\ vips_tracked_mutex' = vips_tracked_once[2]
    /\ object' = [object EXCEPT ![t] = o]
    /\ size' = [size EXCEPT ![t] = n]
    /\ req' = [req EXCEPT ![t] = n]
    /\ ret' = [ret EXCEPT ![t] = NULL]
    /\ msgs' = [msgs EXCEPT ![t] = {}]
    /\ touched' = [touched EXCEPT ![t] = {}]
    /\ snap' = IF o = NULL /\ script[t] = 0
                  /\ \A u \in Threads \ {t} : pc[u] = "idle"
               THEN [phase |-> "malloc", t |-> t, mem |-> vips_tracked_mem,
                     allocs |-> vips_tracked_allocs, ptr |-> NULL]
               ELSE NoSnap
    /\ UNCHANGED <<counters, extvars, buf, s, pending, reg, aborted, live,
                   freed, misuses, nok, balance, reqsum, want, given, fired,
                   xfreed>>
    /\ UNCHANGED committed

CallMalloc(t, o, n) ==
    /\ ncalls < MaxCalls
    /\ pc[t] = "idle"
    /\ EnterMalloc(t, o, n)
    /\ ncalls' = ncalls + 1
    /\ UNCHANGED script

\* memory.c:242-246, 279  vips_tracked_mutex_new(): g_mutex_new(); g_once()
\* keeps what it returned and returns it, and it is assigned
MallocMutexNew(t) ==
    /\ pc[t] = "m_new"
    /\ mutexes' = Append(mutexes, 0)
    /\ vips_tracked_once' = <<"ready", Len(mutexes) + 1>>
    /\ vips_tracked_mutex' = Len(mutexes) + 1
    /\ pc' = [pc EXCEPT ![t] = "m_alloc"]
    /\ UNCHANGED <<counters, heap, objs, args, reg, ret, msgs, aborted, hist,
                   touched, snap>>
    /\ UNCHANGED committed

\* memory.c:286-288  size += 16; buf = g_try_malloc( size )
MallocAlloc(t) ==
    /\ pc[t] = "m_alloc"
    /\ LET total == AddHeader(size[t]) IN
       /\ size' = [size EXCEPT ![t] = total]
       /\ \E r \in TryMalloc(total) :
            /\ buf' = [buf EXCEPT ![t] = r]
            /\ IF r = NULL
               THEN /\ pc' = [pc EXCEPT ![t] = "m_fail"]
                    /\ UNCHANGED <<held, blksize, want>>
               ELSE /\ pc' = [pc EXCEPT ![t] = "m_lock"]
                    /\ held' = held \cup {r}
                    /\ blksize' = [blksize EXCEPT ![r] = total]
                    /\ want' = [want EXCEPT ![r] = req[t]]
    /\ UNCHANGED <<progvars, mutexes, hdr, hdrset, objs, object, s, req,
                   pending, reg, ret, msgs, aborted, live, freed, misuses,
                   ncalls, nok, balance, reqsum, script, given, fired, xfreed,
                   touched, snap>>
    /\ UNCHANGED committed

\* memory.c:293-300  vips_error(), vips_warn(), return( NULL )
MallocFail(t) ==
    /\ pc[t] = "m_fail"
    /\ msgs' = [msgs EXCEPT ![t] = OutOfMemory]
    /\ ret' = [ret EXCEPT ![t] = NULL]
    /\ pc' = [pc EXCEPT ![t] = "m_ret"]
    /\ snap' = IF snap.t = t THEN NoSnap ELSE snap
    /\ size' = Drop(size, t) /\ buf' = Drop(buf, t) /\ reg' = Drop(reg, t)
    /\ UNCHANGED <<progvars, extvars, object, s, req, pending, aborted, hist,
                   touched>>
    /\ UNCHANGED committed

\* memory.c:303-308  g_mutex_lock( vips_tracked_mutex );
\* *((size_t *) buf) = size; buf = (char *) buf + 16; and the load of
\* vips_tracked_mem += size
MallocLock(t) ==
    /\ pc[t] = "m_lock"
    /\ CanLock(vips_tracked_mutex)
    /\ IF vips_tracked_mutex = NULL
       THEN aborted' = TRUE /\ mutexes' = mutexes
       ELSE /\ mutexes' = Lock(vips_tracked_mutex, t)
            /\ aborted' = aborted
    /\ touched' = [touched EXCEPT ![t] = @ \cup {"mutex"}]
    /\ hdr' = [hdr EXCEPT ![buf[t]] = size[t]]
    /\ hdrset' = hdrset \cup {buf[t]}
    /\ buf' = [buf EXCEPT ![t] = PayloadOf(buf[t])]
    /\ reg' = [reg EXCEPT ![t] = vips_tracked_mem]
    /\ pc' = IF aborted' THEN Aborted ELSE [pc EXCEPT ![t] = "m_mem_st"]
    /\ UNCHANGED <<progvars, held, blksize, objs, object, size, s, req,
                   pending, ret, msgs, hist, snap>>
    /\ UNCHANGED committed

\* memory.c:308  vips_tracked_mem += size: the store
MallocMemStore(t) ==
    /\ pc[t] = "m_mem_st"
    /\ vips_tracked_mem' = MemAdd(reg[t], size[t])
    /\ touched' = [touched EXCEPT ![t] = @ \cup {"mem"}]
    /\ pc' = [pc EXCEPT ![t] = "m_hw"]
    /\ UNCHANGED <<vips_tracked_allocs, vips_tracked_mem_highwater, oncevars,
                   heap, objs, args, reg, ret, msgs, aborted, hist, snap>>
    /\ UNCHANGED committed

\* memory.c:309-311  if( vips_tracked_mem > vips_tracked_mem_highwater )
\* vips_tracked_mem_highwater = vips_tracked_mem; and the load of
\* vips_tracked_allocs += 1
MallocHighwater(t) ==
    /\ pc[t] = "m_hw"
    /\ vips_tracked_mem_highwater' =
           HighwaterAfter(vips_tracked_mem, vips_tracked_mem_highwater)
    /\ touched' = [touched EXCEPT ![t] =
           IF vips_tracked_mem_highwater' /= vips_tracked_mem_highwater
           THEN @ \cup {"highwater"} ELSE @]
    /\ reg' = [reg EXCEPT ![t] = vips_tracked_allocs]
    /\ pc' = [pc EXCEPT ![t] = "m_cnt_st"]
    /\ UNCHANGED <<vips_tracked_allocs, vips_tracked_mem, oncevars, heap, objs,
                   args, ret, msgs, aborted, hist, snap>>
    /\ UNCHANGED committed

\* memory.c:311  vips_tracked_allocs += 1: the store
MallocCountStore(t) ==
    /\ pc[t] = "m_cnt_st"
    /\ vips_tracked_allocs' = reg[t] + 1
    /\ touched' = [touched EXCEPT ![t] = @ \cup {"allocs"}]
    /\ pc' = [pc EXCEPT ![t] = "m_unlock"]
    /\ UNCHANGED <<vips_tracked_mem, vips_tracked_mem_highwater, oncevars,
                   heap, objs, args, reg, ret, msgs, aborted, hist, snap>>
    /\ UNCHANGED committed

\* memory.c:313  g_mutex_unlock( vips_tracked_mutex )
MallocUnlock(t) ==
    /\ pc[t] = "m_unlock"
    /\ mutexes' = Unlock(vips_tracked_mutex, t)
    /\ pc' = [pc EXCEPT ![t] = "m_connect"]
    /\ UNCHANGED <<progvars, heap, objs, args, reg, ret, msgs, aborted, hist,
                   touched, snap>>
    /\ committed' = Counters

\* an allocation that connects no handler
Connects_never(o) == FALSE

\* memory.c:315-317  whether a postclose handler is connected
Connects(o) == o /= NULL

\* memory.c:315-319  if( object ) g_signal_connect( object, "postclose",
\* vips_tracked_cb, buf ); return( buf )
MallocConnect(t) ==
    /\ pc[t] = "m_connect"
    /\ callbacks' = IF Connects(object[t])
                    THEN [callbacks EXCEPT ![object[t]] = Append(@, buf[t])]
                    ELSE callbacks
    /\ touched' = [touched EXCEPT ![t] =
           IF callbacks' /= callbacks THEN @ \cup {"callback"} ELSE @]
    /\ ret' = [ret EXCEPT ![t] = buf[t]]
    /\ pc' = [pc EXCEPT ![t] = "m_ret"]
    /\ live' = live \cup {buf[t]}
    /\ nok' = IF script[t] = 0 THEN nok + 1 ELSE nok
    /\ reqsum' = IF freed = {} THEN reqsum + req[t] + HEADER ELSE 0
    /\ given' = IF object[t] /= NULL
                THEN [given EXCEPT ![object[t]] = Append(@, buf[t])]
                ELSE given
    /\ xfreed' = xfreed \ {buf[t]}
    /\ balance' = balance + 1
    /\ snap' = IF snap.t = t /\ snap.phase = "malloc"
               THEN [snap EXCEPT !.phase = "allocated", !.ptr = buf[t]]
               ELSE snap
    /\ size' = Drop(size, t) /\ buf' = Drop(buf, t) /\ reg' = Drop(reg, t)
    /\ UNCHANGED <<progvars, mutexes, heap, alive, object, s, req, pending,
                   msgs, aborted, freed, misuses, ncalls, script, want, fired>>
    /\ UNCHANGED committed

\* the caller has the result of vips_tracked_malloc()
MallocReturn(t) ==
    /\ pc[t] = "m_ret"
    /\ script[t] > 0 => ret[t] = NULL
    /\ pc' = [pc EXCEPT ![t] = "idle"]
    /\ script' = [script EXCEPT ![t] = IF @ > 0 THEN @ - 1 ELSE 0]
    /\ ret' = Drop(ret, t) /\ req' = Drop(req, t) /\ object' = Drop(object, t)
    /\ msgs' = [msgs EXCEPT ![t] = {}]
    /\ touched' = [touched EXCEPT ![t] = {}]
    /\ UNCHANGED <<progvars, extvars, size, buf, s, pending, reg, aborted,
                   live, freed, misuses, ncalls, nok, balance, reqsum, snap,
                   want, given, fired, xfreed>>
    /\ UNCHANGED committed

\* --------------------------------------------------- vips_tracked_free()

\* memory.c:213-222  vips_tracked_free( p ) is entered:
\* s = (char *) s - 16; size = *((size_t *) s)
EnterFree(t, p) ==
    /\ s' = [s EXCEPT ![t] = BaseOf(p)]
    /\ \E v \in HeaderRead(BaseOf(p)) : size' = [size EXCEPT ![t] = v]
    /\ pc' = [pc EXCEPT ![t] = "f_lock"]
    /\ msgs' = [msgs EXCEPT ![t] = {}]
    /\ touched' = [touched EXCEPT ![t] = {}]
    /\ live' = live \ {p}
    /\ freed' = freed \cup {p}
    /\ misuses' = IF p \in live THEN misuses ELSE misuses + 1
    /\ reqsum' = 0

\* a caller calls vips_tracked_free( p )
BeginFree(t, p) ==
    /\ EnterFree(t, p)
    /\ object' = [object EXCEPT ![t] = NULL]
    /\ ret' = [ret EXCEPT ![t] = NULL]
    /\ snap' = IF snap.t = t /\ snap.phase = "allocated" /\ snap.ptr = p
               THEN [snap EXCEPT !.phase = "free"] ELSE NoSnap
    /\ xfreed' = xfreed \cup {p}
    /\ UNCHANGED <<progvars, extvars, buf, req, pending, reg, aborted, nok,
                   balance, script, want, given, fired>>
    /\ UNCHANGED committed

\* ... on a pointer vips_tracked_malloc() returned: a live one, or one that
\* was freed before
CallFree(t, p) ==
    /\ ncalls < MaxCalls
    /\ pc[t] = "idle"
    /\ p \in live \cup freed
    /\ BeginFree(t, p)
    /\ ncalls' = ncalls + 1

\* memory.c:224-229  g_mutex_lock( vips_tracked_mutex ); the "too many frees"
\* warning; and the load of vips_tracked_mem -= size
FreeLock(t) ==
    /\ pc[t] = "f_lock"
    /\ CanLock(vips_tracked_mutex)
    /\ IF vips_tracked_mutex = NULL
       THEN aborted' = TRUE /\ mutexes' = mutexes
       ELSE /\ mutexes' = Lock(vips_tracked_mutex, t)
            /\ aborted' = aborted
    /\ touched' = [touched EXCEPT ![t] = @ \cup {"mutex"}]
    /\ msgs' = [msgs EXCEPT ![t] =
           IF TooManyFrees(vips_tracked_allocs) THEN @ \cup {WarnFrees} ELSE @]
    /\ reg' = [reg EXCEPT ![t] = vips_tracked_mem]
    /\ pc' = IF aborted' THEN Aborted ELSE [pc EXCEPT ![t] = "f_mem_st"]
    /\ UNCHANGED <<progvars, heap, objs, args, ret, hist, snap>>
    /\ UNCHANGED committed

\* memory.c:229-233  vips_tracked_mem -= size: the store; the "too much free"
\* warning; and the load of vips_tracked_allocs -= 1
FreeMemStore(t) ==
    /\ pc[t] = "f_mem_st"
    /\ vips_tracked_mem' = MemSub(reg[t], size[t])
    /\ touched' = [touched EXCEPT ![t] = @ \cup {"mem"}]
    /\ msgs' = [msgs EXCEPT ![t] =
           IF TooMuchFree(vips_tracked_mem') THEN @ \cup {WarnFree} ELSE @]
    /\ reg' = [reg EXCEPT ![t] = vips_tracked_allocs]
    /\ pc' = [pc EXCEPT ![t] = "f_cnt_st"]
    /\ UNCHANGED <<vips_tracked_allocs, vips_tracked_mem_highwater, oncevars,
                   heap, objs, args, ret, aborted, hist, snap>>
    /\ UNCHANGED committed

\* memory.c:233  vips_tracked_allocs -= 1: the store
FreeCountStore(t) ==
    /\ pc[t] = "f_cnt_st"
    /\ vips_tracked_allocs' = reg[t] - 1
    /\ touched' = [touched EXCEPT ![t] = @ \cup {"allocs"}]
    /\ pc' = [pc EXCEPT ![t] = "f_unlock"]
    /\ UNCHANGED <<vips_tracked_mem, vips_tracked_mem_highwater, oncevars,
                   heap, objs, args, reg, ret, msgs, aborted, hist, snap>>
    /\ UNCHANGED committed

\* memory.c:235  g_mutex_unlock( vips_tracked_mutex )
FreeUnlock(t) ==
    /\ pc[t] = "f_unlock"
    /\ mutexes' = Unlock(vips_tracked_mutex, t)
    /\ pc' = [pc EXCEPT ![t] = "f_release"]
    /\ UNCHANGED <<progvars, heap, objs, args, reg, ret, msgs, aborted, hist,
                   touched, snap>>
    /\ committed' = Counters

\* memory.c:237  g_free( s ): releases a held block; for a block that is not
\* held the allocator either goes on or aborts the process
FreeRelease(t) ==
    /\ pc[t] = "f_release"
    /\ IF s[t] \in held
       THEN /\ held' = held \ {s[t]}
            /\ hdrset' = hdrset \ {s[t]}
            /\ blksize' = [blksize EXCEPT ![s[t]] = 0]
            /\ hdr' = [hdr EXCEPT ![s[t]] = 0]
            /\ want' = [want EXCEPT ![s[t]] = 0]
            /\ aborted' = aborted
       ELSE /\ UNCHANGED <<held, hdrset, blksize, hdr, want>>
            /\ aborted' \in {FALSE, TRUE}
    /\ pc' = IF aborted' THEN Aborted ELSE [pc EXCEPT ![t] = "f_ret"]
    /\ balance' = balance - 1
    /\ snap' = IF snap.t = t /\ snap.phase = "free"
               THEN [snap EXCEPT !.phase = "done"] ELSE snap
    /\ size' = Drop(size, t) /\ s' = Drop(s, t) /\ reg' = Drop(reg, t)
    /\ UNCHANGED <<progvars, mutexes, objs, object, buf, req, pending, ret,
                   msgs, live, freed, misuses, ncalls, nok, reqsum, script,
                   touched, given, fired, xfreed>>
    /\ UNCHANGED committed

\* vips_tracked_free() has returned: to the caller, or to the emission of
\* postclose when a handler called it
FreeReturn(t) ==
    /\ pc[t] = "f_ret"
    /\ pc' = [pc EXCEPT ![t] = IF object[t] /= NULL THEN "d_emit" ELSE "idle"]
    /\ script' = [script EXCEPT ![t] = IF @ > 0 THEN @ - 1 ELSE 0]
    /\ msgs' = [msgs EXCEPT ![t] = {}]
    /\ touched' = [touched EXCEPT ![t] = {}]
    /\ snap' = IF snap.t = t THEN NoSnap ELSE snap
    /\ UNCHANGED <<progvars, extvars, args, reg, ret, aborted, live, freed,
                   misuses, ncalls, nok, balance, reqsum, want, given, fired,
                   xfreed>>
    /\ UNCHANGED committed

\* ------------------------------------- the owner's postclose (VipsObject)

\* the owner o is destroyed by thread t: postclose is emitted, and every
\* handler connected to it runs once, in the order of connection
DestroyOwner(t, o) ==
    /\ ncalls < MaxCalls
    /\ pc[t] = "idle"
    /\ alive[o]
    /\ \A u \in Threads : InMalloc(u) => object[u] /= o
    /\ alive' = [alive EXCEPT ![o] = FALSE]
    /\ pending' = [pending EXCEPT ![t] = callbacks[o]]
    /\ object' = [object EXCEPT ![t] = o]
    /\ pc' = [pc EXCEPT ![t] = "d_emit"]
    /\ ncalls' = ncalls + 1
    /\ snap' = NoSnap
    /\ UNCHANGED <<progvars, mutexes, heap, callbacks, size, buf, s, req, reg,
                   ret, msgs, aborted, live, freed, misuses, nok, balance,
                   reqsum, script, touched, want, given, fired, xfreed>>
    /\ UNCHANGED committed

\* a handler that returns without freeing
vips_tracked_cb_skip(t, b) ==
    /\ pc' = [pc EXCEPT ![t] = "f_ret"]
    /\ UNCHANGED <<s, size, msgs, touched, live, freed, misuses, reqsum>>

\* memory.c:248-252  vips_tracked_cb( object, buf ): vips_tracked_free( buf )
vips_tracked_cb(t, b) == EnterFree(t, b)

\* the emission of postclose runs the next handler
EmitNext(t) ==
    /\ pc[t] = "d_emit"
    /\ pending[t] /= << >>
    /\ vips_tracked_cb(t, Head(pending[t]))
    /\ pending' = [pending EXCEPT ![t] = Tail(@)]
    /\ fired' = [fired EXCEPT ![object[t]] = Append(@, Head(pending[t]))]
    /\ UNCHANGED <<progvars, extvars, object, buf, req, reg, ret, aborted,
                   ncalls, nok, balance, script, snap, want, given, xfreed>>
    /\ UNCHANGED committed

\* the emission of postclose is over
EmitDone(t) ==
    /\ pc[t] = "d_emit"
    /\ pending[t] = << >>
    /\ pc' = [pc EXCEPT ![t] = "idle"]
    /\ object' = [object EXCEPT ![t] = NULL]
    /\ UNCHANGED <<progvars, extvars, size, buf, s, req, pending, reg, ret,
                   msgs, aborted, hist, touched, snap>>
    /\ UNCHANGED committed

\* ------------------------------------------------------ the accessors

\* an accessor that returns another counter
vips_tracked_get_mem_other == vips_tracked_mem_highwater

\* memory.c:331-335  return( vips_tracked_mem )
vips_tracked_get_mem == vips_tracked_mem

\* memory.c:345-349  return( vips_tracked_mem_highwater )
vips_tracked_get_mem_highwater == vips_tracked_mem_highwater

\* memory.c:358-362  return( vips_tracked_allocs )
vips_tracked_get_allocs == vips_tracked_allocs

Getters == {"g_mem", "g_highwater", "g_allocs"}

\* memory.c:331-362  a caller calls one of the three accessors: one read of
\* the counter, with no lock
CallGet(t, fn) ==
    /\ ncalls < MaxCalls
    /\ pc[t] = "idle"
    /\ ret' = [ret EXCEPT ![t] =
           CASE fn = "g_mem" -> vips_tracked_get_mem
             [] fn = "g_highwater" -> vips_tracked_get_mem_highwater
             [] fn = "g_allocs" -> vips_tracked_get_allocs]
    /\ pc' = [pc EXCEPT ![t] = fn]
    /\ msgs' = [msgs EXCEPT ![t] = {}]
    /\ touched' = [touched EXCEPT ![t] = {}]
    /\ ncalls' = ncalls + 1
    /\ snap' = NoSnap
    /\ UNCHANGED <<progvars, extvars, args, reg, aborted, live, freed,
                   misuses, nok, balance, reqsum, script, want, given, fired,
                   xfreed, committed>>

\* the caller has the value
GetReturn(t) ==
    /\ pc[t] \in Getters
    /\ pc' = [pc EXCEPT ![t] = "idle"]
    /\ ret' = Drop(ret, t)
    /\ UNCHANGED <<progvars, extvars, args, reg, msgs, aborted, hist, touched,
                   snap, committed>>

\* --------------------------------------------- the allocate / free pairs

\* a thread with pairs left allocates with no owner
PairMalloc(t, n) ==
    /\ script[t] > 0
    /\ pc[t] = "idle"
    /\ EnterMalloc(t, NULL, n)
    /\ UNCHANGED <<ncalls, script>>

\* and frees the pointer it got
PairFree(t) ==
    /\ script[t] > 0
    /\ pc[t] = "m_ret"
    /\ ret[t] /= NULL
    /\ BeginFree(t, ret[t])
    /\ UNCHANGED ncalls

\* ------------------------------------------------------- specifications

MallocStep(t) ==
    \/ MallocMutexNew(t) \/ MallocAlloc(t) \/ MallocFail(t) \/ MallocLock(t)
    \/ MallocMemStore(t) \/ MallocHighwater(t) \/ MallocCountStore(t)
    \/ MallocUnlock(t) \/ MallocConnect(t) \/ MallocReturn(t)

FreeStep(t) ==
    \/ FreeLock(t) \/ FreeMemStore(t) \/ FreeCountStore(t) \/ FreeUnlock(t)
    \/ FreeRelease(t) \/ FreeReturn(t)

Next ==
    \E t \in Callers :
        \/ \E n \in Sizes : CallMalloc(t, NULL, n)
        \/ \E o \in Owners, n \in OwnerSizes : CallMalloc(t, o, n)
        \/ \E p \in live \cup freed : CallFree(t, p)
        \/ \E o \in Owners : DestroyOwner(t, o)
        \/ EmitNext(t) \/ EmitDone(t)
        \/ \E fn \in Getters : CallGet(t, fn)
        \/ GetReturn(t)
        \/ MallocStep(t) \/ FreeStep(t)

Spec == Init /\ [][Next]_vars

\* calls of vips_tracked_malloc() with no owner and of vips_tracked_free(),
\* on live pointers and on freed ones, under a scheduler that lets every
\* thread in a call run on
NextCalls ==
    \E t \in Callers :
        \/ CallMalloc(t, NULL, 100)
        \/ \E p \in live \cup freed : CallFree(t, p)
        \/ MallocStep(t) \/ FreeStep(t)

Fairness == \A t \in Callers : WF_vars(MallocStep(t) \/ FreeStep(t))

FairSpec == Init /\ [][NextCalls]_vars /\ Fairness

\* M threads, each K pairs of vips_tracked_malloc( NULL, n ) and
\* vips_tracked_free()
InitPairs == InitCommon /\ script = [t \in Threads |-> NPairs]

NextPairs ==
    \E t \in Threads :
        \/ PairMalloc(t, PairSize(t))
        \/ PairFree(t)
        \/ MallocStep(t) \/ FreeStep(t)

SpecPairs == InitPairs /\ [][NextPairs]_vars

\* ================================================================ claims

Range(q) == {q[i] : i \in 1 .. Len(q)}

\* the sum of f over the bases of the live pointers
LiveSum(f) == SumOver(f, {BaseOf(p) : p \in live})

\* no thread holds a mutex
MutexIdle == \A m \in DOMAIN mutexes : mutexes[m] = 0

\* ------------------------------------------------------------------- C1
\* C1: when M threads have each done their K pairs of
\* vips_tracked_malloc( NULL, n ) and vips_tracked_free() of the pointer, in
\* any interleaving, vips_tracked_mem and vips_tracked_allocs are both 0.
PairsDone == \A t \in Threads : script[t] = 0 /\ pc[t] = "idle"

C1_PairsLeaveZero ==
    PairsDone => vips_tracked_mem = 0 /\ vips_tracked_allocs = 0

\* the pairs are over, and two blocks were counted at the same time
C1_Witness ==
    /\ PairsDone
    /\ vips_tracked_mem_highwater =
           AddHeader(PairSize(1)) + AddHeader(PairSize(2))

C3_RoundTrip ==
    /\ snap.phase = "done" =>
           /\ vips_tracked_mem = snap.mem
           /\ vips_tracked_allocs = snap.allocs
    /\ (/\ snap.phase = "allocated"
        /\ snap.mem = 0 /\ snap.allocs = 0
        /\ req[snap.t] = 100) =>
           /\ vips_tracked_mem = 100 + HEADER
           /\ vips_tracked_allocs = 1

\* a round trip is over that began with blocks already counted
C3_Witness == snap.phase = "done" /\ snap.mem > 0 /\ snap.allocs > 0

\* ------------------------------------------------------------------- C4
\* C4: after N successful allocations of sizes s_1 .. s_N and no free,
\* vips_tracked_mem is the sum of s_i + 16 and vips_tracked_allocs is N.
C4_SumOfSizes ==
    (Quiescent /\ freed = {}) =>
        /\ vips_tracked_mem = reqsum
        /\ vips_tracked_allocs = nok

\* ------------------------------------------------------------------- C5
\* C5: a request with size > SIZE_MAX - 16 fails: it never goes on to count
\* a block, and it returns NULL.
C5_OverflowFails ==
    \A t \in Threads :
        req[t] > SIZE_MAX - HEADER =>
            /\ pc[t] \notin {"m_lock", "m_mem_st", "m_hw", "m_cnt_st",
                             "m_unlock", "m_connect"}
            /\ pc[t] = "m_ret" => ret[t] = NULL

\* ------------------------------------------------------------------- C6
\* C6: the high-water mark is at least the current bytes after any
\* operations the interface admits (stated where no thread holds the mutex).
C6_HighwaterAtLeastMem ==
    MutexIdle => vips_tracked_mem_highwater >= vips_tracked_mem

\* ------------------------------------------------------------------- C7
\* C7: no step lowers vips_tracked_mem_highwater; only the step of
\* vips_tracked_malloc() at memory.c:309-310 changes it, to the current
\* bytes, which exceed it.
C7_HighwaterMonotone ==
    [][/\ vips_tracked_mem_highwater' >= vips_tracked_mem_highwater
       /\ vips_tracked_mem_highwater' /= vips_tracked_mem_highwater =>
              /\ vips_tracked_mem_highwater' = vips_tracked_mem
              /\ vips_tracked_mem > vips_tracked_mem_highwater
              /\ \E t \in Threads : pc[t] = "m_hw" /\ pc'[t] = "m_cnt_st"]_vars

\* a free has returned and the mark stays above the current bytes
C7_Witness ==
    \E t \in Threads :
        pc[t] = "f_ret" /\ vips_tracked_mem_highwater > vips_tracked_mem

\* ------------------------------------------------------------------- C8
\* C8: the handlers of an owner run only when it is destroyed, and then once
\* on each pointer vips_tracked_malloc() returned for it (in a process that
\* undefined behaviour has not ended), so that the
\* counters return to what they were; while the owner is alive a block that
\* no caller freed stays live and held; and no step but the destruction of
\* an owner ends it.
Emitting(o) ==
    \E t \in Threads :
        object[t] = o /\ (pc[t] \in {"d_emit", "f_ret"} \/ InFree(t))

C8_Inv ==
    /\ \A o \in Owners :
        /\ alive[o] => fired[o] = << >>
        /\ Len(fired[o]) <= Len(given[o])
        /\ fired[o] = SubSeq(given[o], 1, Len(fired[o]))
        /\ (~alive[o] /\ ~Emitting(o) /\ ~aborted) => fired[o] = given[o]
        /\ (alive[o] /\ misuses = 0) =>
               \A p \in Range(given[o]) \ xfreed :
                   p \in live /\ BaseOf(p) \in held
    /\ (/\ Quiescent /\ misuses = 0
        /\ \A o \in Owners : ~alive[o] /\ ~Emitting(o)
        /\ nok = SumOver([o \in Owners |-> Len(given[o])], Owners)) =>
           /\ vips_tracked_allocs = 0
           /\ vips_tracked_mem = 0
           /\ held = {}

C8_OwnerRelease ==
    /\ []C8_Inv
    /\ [][\A o \in Owners :
              (alive[o] /\ ~alive'[o]) =>
                  \E t \in Threads :
                      pc[t] = "idle" /\ pc'[t] = "d_emit" /\ object'[t] = o]_vars

\* one byte was allocated with an owner, the owner was destroyed with no
\* explicit free, and the count is back at 0
C8_Witness ==
    /\ Quiescent /\ misuses = 0 /\ ncalls = 2
    /\ ~alive[1] /\ Len(given[1]) = 1 /\ fired[1] = given[1]
    /\ nok = 1 /\ xfreed = {}
    /\ vips_tracked_allocs = 0 /\ vips_tracked_mem_highwater = 1 + HEADER

\* ------------------------------------------------------------------- C9
\* C9: when g_try_malloc() returns NULL, vips_tracked_malloc() reports an
\* error and a warning and returns NULL, and the call has not taken the
\* mutex, written a counter or connected a handler.
C9_Exhaustion ==
    \A t \in Threads :
        /\ pc[t] = "m_fail" =>
               buf[t] = NULL /\ touched[t] = {} /\ msgs[t] = {}
        /\ (pc[t] = "m_ret" /\ msgs[t] /= {}) =>
               /\ ret[t] = NULL
               /\ msgs[t] = {ErrOOM, WarnOOM}
               /\ touched[t] = {}
        /\ (pc[t] = "m_ret" /\ msgs[t] = {}) =>
               ret[t] /= NULL /\ "mutex" \in touched[t]

\* an allocation with an owner has failed, and no handler is connected
C9_Witness ==
    \E t \in Threads :
        /\ pc[t] = "m_ret" /\ ret[t] = NULL
        /\ object[t] /= NULL /\ callbacks[object[t]] = << >>
        /\ vips_tracked_allocs = 1

\* ------------------------------------------------------------------ C10
\* C10: a free that finds the count <= 0 warns "too many frees" and still
\* takes the count down by one; with no call in progress the count is the
\* allocations returned less the frees done, so one allocation freed twice
\* leaves -1.
C10_TooManyFrees ==
    /\ \A t \in Threads :
        /\ pc[t] = "f_mem_st" =>
               (WarnFrees \in msgs[t] <=> vips_tracked_allocs <= 0)
        /\ pc[t] = "f_cnt_st" =>
               (WarnFrees \in msgs[t] <=> reg[t] <= 0)
        /\ pc[t] = "f_unlock" =>
               (WarnFrees \in msgs[t] <=> vips_tracked_allocs <= -1)
    /\ Quiescent => vips_tracked_allocs = balance

\* one allocation with no owner, freed twice: the second free has warned
\* and the count is -1
C10_Witness ==
    \E t \in Threads :
        /\ pc[t] = "f_ret" /\ WarnFrees \in msgs[t]
        /\ Quiescent /\ ncalls = 3 /\ nok = 1 /\ misuses = 1
        /\ \A o \in Owners : given[o] = << >>
        /\ vips_tracked_allocs = -1

\* ------------------------------------------------------------------ C11
\* C11: when vips_tracked_free() has taken from vips_tracked_mem a size that
\* was larger than it, the call has reported "too much free": here
\* vips_tracked_mem + size exceeds SIZE_MAX exactly when the subtraction
\* wrapped, and the thread still holds the mutex.
C11_OverFreeWarns ==
    \A t \in Threads :
        (pc[t] = "f_cnt_st" /\ vips_tracked_mem + size[t] > SIZE_MAX) =>
            WarnFree \in msgs[t]

\* ------------------------------------------------------------------ C12
\* C12: vips_tracked_mutex_new() runs at most once, however the first calls
\* race; a thread past the g_once() of vips_tracked_malloc(), or in
\* vips_tracked_free(), finds the GOnce ready and vips_tracked_mutex set to
\* the one mutex it made, never NULL; and no other mutex is ever locked.
PastOnce(t) ==
    pc[t] \in {"m_alloc", "m_fail", "m_lock", "m_mem_st", "m_hw", "m_cnt_st",
               "m_unlock", "m_connect", "m_ret"} \/ InFree(t)

C12_OnceInit ==
    /\ Len(mutexes) <= 1
    /\ (vips_tracked_once[1] = "ready") <=> (Len(mutexes) = 1)
    /\ vips_tracked_once[1] = "ready" => vips_tracked_once[2] = 1
    /\ vips_tracked_mutex \in {NULL, vips_tracked_once[2]}
    /\ \A t \in Threads :
        PastOnce(t) =>
            /\ vips_tracked_once[1] = "ready"
            /\ vips_tracked_mutex /= NULL
            /\ vips_tracked_mutex = vips_tracked_once[2]
    /\ \A m \in DOMAIN mutexes : mutexes[m] /= 0 => m = vips_tracked_mutex

\* two threads made the first two calls at once and both wait to take the
\* one mutex
C12_Witness ==
    /\ ncalls = 2 /\ nok = 0
    /\ \A t \in Callers : pc[t] = "m_lock"
    /\ Len(mutexes) = 1 /\ vips_tracked_mutex = 1

\* ------------------------------------------------------------------ C13
\* C13: a step that changes vips_tracked_mem, vips_tracked_mem_highwater or
\* vips_tracked_allocs is a step of vips_tracked_malloc() or
\* vips_tracked_free() by the thread that holds vips_tracked_mutex; a thread
\* between g_mutex_lock() and g_mutex_unlock() holds it, and no other
\* thread does in a process that undefined behaviour has not ended; and at
\* most one thread is there.
Locked(t) ==
    pc[t] \in {"m_mem_st", "m_hw", "m_cnt_st", "m_unlock",
               "f_mem_st", "f_cnt_st", "f_unlock"}

Holds(t) == vips_tracked_mutex /= NULL /\ mutexes[vips_tracked_mutex] = t

C13_Inv ==
    /\ \A t \in Threads : Locked(t) => Holds(t)
    /\ \A t \in Threads : Holds(t) => Locked(t) \/ aborted
    /\ Cardinality({t \in Threads : Locked(t)}) <= 1

C13_WritesUnderMutex ==
    /\ []C13_Inv
    /\ [][counters' /= counters =>
              \E t \in Threads :
                  /\ Holds(t) /\ Locked(t) /\ Locked(t)'
                  /\ pc'[t] /= pc[t]
                  /\ \A u \in Threads \ {t} : pc'[u] = pc[u]]_vars

\* a thread is about to store the count while another waits for the mutex
\* in vips_tracked_free()
C13_Witness ==
    \E t, u \in Threads :
        /\ pc[t] = "m_cnt_st" /\ Holds(t)
        /\ pc[u] = "f_lock"

\* ------------------------------------------------------------------ C14
\* C14: a thread about to call g_try_malloc() or g_free(), or back from a
\* failed g_try_malloc(), holds no mutex; and the blocks held from the
\* external allocator change only in a step of such a thread.
AtAllocator(t) == pc[t] \in {"m_alloc", "m_fail", "f_release"}

C14_Inv ==
    \A t \in Threads :
        AtAllocator(t) => \A m \in DOMAIN mutexes : mutexes[m] /= t

C14_NoLockAcrossAllocator ==
    /\ []C14_Inv
    /\ [][held' /= held =>
              \E t \in Threads :
                  /\ pc[t] \in {"m_alloc", "f_release"} /\ pc'[t] /= pc[t]
                  /\ \A m \in DOMAIN mutexes :
                         mutexes[m] /= t /\ mutexes'[m] /= t]_vars

\* a thread is about to call g_free() while another holds the mutex, and a
\* block was obtained while the mutex was held by another thread
C14_Witness ==
    \E t, u \in Threads :
        /\ pc[t] = "f_release" /\ s[t] \in held
        /\ Holds(u) /\ u /= t
        /\ buf[u] /= NULL

\* ------------------------------------------------------------------ C16
\* C16: the value an accessor returns is the value its counter had when
\* the mutex was last free: a call never returns what a critical section
\* in progress has written.
C16_CommittedReads ==
    [][\A t \in Threads :
           (pc[t] = "idle" /\ pc'[t] \in Getters) =>
               ret'[t] = CASE pc'[t] = "g_mem" -> committed.mem
                           [] pc'[t] = "g_highwater" -> committed.highwater
                           [] pc'[t] = "g_allocs" -> committed.allocs]_vars

\* ------------------------------------------------------------------ C17
\* C17: a call of an accessor returns the value of its counter and changes
\* no counter, no mutex, no block, no live pointer and no handler of an
\* owner; it takes no mutex, and it can be made whoever holds the mutex.
C17_Frame ==
    \A t \in Threads :
        (pc[t] = "idle" /\ pc'[t] \in Getters) =>
            /\ ret'[t] = CASE pc'[t] = "g_mem" -> vips_tracked_mem
                           [] pc'[t] = "g_highwater" -> vips_tracked_mem_highwater
                           [] pc'[t] = "g_allocs" -> vips_tracked_allocs
            /\ touched'[t] = {} /\ msgs'[t] = {}
            /\ UNCHANGED <<counters, oncevars, heap, objs, live, aborted>>

C17_Inv ==
    \A t \in Callers, fn \in Getters :
        (pc[t] = "idle" /\ ncalls < MaxCalls) => ENABLED CallGet(t, fn)

C17_AccessorsPure ==
    /\ []C17_Inv
    /\ [][C17_Frame]_vars
    /\ [][\A t \in Threads :
              (pc[t] \in Getters /\ pc'[t] = "idle") =>
                  UNCHANGED <<counters, oncevars, heap, objs, live, aborted>>]_vars

\* vips_tracked_get_mem() has returned the bytes of a live block with an
\* owner while another thread holds the mutex
C17_Witness ==
    \E t, u \in Threads :
        /\ pc[t] = "g_mem" /\ ret[t] = 1 + HEADER
        /\ Holds(u)
        /\ callbacks[1] /= << >>

\* ------------------------------------------------------------------ C18
\* C18: while every free was of a live pointer, a thread in
\* vips_tracked_free() has in s the base of a held block, 16 below a pointer
\* that was passed to free, and in size the total written to that block's
\* header, which is the size of the block; the step of g_free() releases
\* that block and no other, and the process goes on; a block is held for
\* every live pointer; and when no call is in progress and no pointer is
\* live, no block is held.
C18_Inv ==
    misuses = 0 =>
        /\ ~aborted
        /\ \A t \in Threads :
            InFree(t) =>
                /\ s[t] \in held
                /\ s[t] + HEADER \in freed
                /\ s[t] + HEADER \notin live
                /\ size[t] = hdr[s[t]]
                /\ hdr[s[t]] = blksize[s[t]]
                /\ \A u \in Threads \ {t} : InFree(u) => s[u] /= s[t]
        /\ \A p \in live : p - HEADER \in held
        /\ (Quiescent /\ live = {}) => held = {}

C18_Pairing ==
    /\ []C18_Inv
    /\ [][misuses = 0 =>
              \A t \in Threads :
                  (pc[t] = "f_release" /\ pc'[t] /= pc[t]) =>
                      /\ pc'[t] = "f_ret"
                      /\ held' = held \ {s[t]}
                      /\ s[t] \in held]_vars

\* the free of a block of 100 bytes is at its g_free(): the counters are
\* back at 0 and the block of 116 bytes is still held
C18_Witness ==
    \E t \in Threads :
        /\ misuses = 0 /\ pc[t] = "f_release"
        /\ s[t] \in held /\ size[t] = 100 + HEADER
        /\ blksize[s[t]] = 100 + HEADER
        /\ vips_tracked_mem = 0 /\ vips_tracked_allocs = 0

\* ------------------------------------------------------------------ C19
\* C19: while every free was of a live pointer, in every state, with calls
\* in progress or not, vips_tracked_mem is at most the bytes held from the
\* external allocator.
C19_MemAtMostHeld ==
    misuses = 0 => vips_tracked_mem <= HeldBytes

\* one block is held and not yet counted, another is no longer counted and
\* not yet released: 232 bytes are held and none is counted
C19_Witness ==
    \E t, u \in Threads :
        /\ misuses = 0
        /\ pc[t] = "m_lock" /\ pc[u] = "f_release"
        /\ vips_tracked_mem = 0
        /\ HeldBytes = 2 * (100 + HEADER)

\* ------------------------------------------------------------------ C20
\* C20: the handlers connected to an owner are the pointers
\* vips_tracked_malloc() returned for it, whatever was freed since: the only
\* step that changes them is the g_signal_connect() of an allocation, which
\* adds one.  So the destruction of an owner frees again a pointer a caller
\* has freed: after one allocation with an owner, a free of its pointer and
\* the destruction of the owner, the count is -1, one below the number of
\* live blocks.  An allocation with no owner adds no handler.
C20_Inv ==
    /\ \A o \in Owners : callbacks[o] = given[o]
    /\ (/\ Quiescent /\ ncalls = 3 /\ nok = 1
        /\ \E o \in Owners :
               /\ Len(given[o]) = 1 /\ given[o][1] \in xfreed
               /\ fired[o] = given[o] /\ ~Emitting(o)) =>
           /\ vips_tracked_allocs = -1
           /\ vips_tracked_allocs = Cardinality(live) - 1

C20_FreeKeepsCallbacks ==
    /\ []C20_Inv
    /\ [][callbacks' /= callbacks =>
              \E t \in Threads :
                  /\ pc[t] = "m_connect" /\ pc'[t] = "m_ret"
                  /\ object[t] /= NULL
                  /\ callbacks' = [callbacks EXCEPT ![object[t]] =
                                       Append(@, ret'[t])]]_vars
    /\ [][\A t \in Threads :
              (pc[t] = "d_emit" /\ pc'[t] = "f_lock") =>
                  /\ s'[t] = Head(pending[t]) - HEADER
                  /\ misuses' = misuses +
                         (IF Head(pending[t]) \in live THEN 0 ELSE 1)]_vars

\* one byte was allocated with an owner and freed by the caller, the owner
\* was destroyed, and its handler has freed the pointer again
C20_Witness ==
    /\ Quiescent /\ ncalls = 3 /\ nok = 1
    /\ Len(given[1]) = 1 /\ given[1][1] \in xfreed
    /\ fired[1] = given[1] /\ ~Emitting(1)
    /\ callbacks[1] = given[1]
    /\ vips_tracked_allocs = -1 /\ live = {}

\* ------------------------------------------------------------------ C15
\* C15: under a fair scheduler every call of vips_tracked_malloc() returns
\* a pointer or NULL and every call of vips_tracked_free() returns, and a
\* thread that holds the mutex comes to hold it no more, unless undefined
\* behaviour ends the process; the mutex is released only by the unlock of
\* its holder; and while a call is in progress some thread in a call can
\* take a step.
C15_Progress ==
    \A t \in Callers :
        /\ InMalloc(t) ~> (pc[t] = "m_ret" \/ aborted)
        /\ InFree(t) ~> (pc[t] = "f_ret" \/ aborted)
        /\ Holds(t) ~> (~Holds(t) \/ aborted)

C15_NotAllBlocked ==
    (~aborted /\ \E t \in Threads : InMalloc(t) \/ InFree(t)) =>
        \E t \in Threads :
            /\ InMalloc(t) \/ InFree(t)
            /\ ENABLED (MallocStep(t) \/ FreeStep(t))

C15_DeadlockFree ==
    /\ C15_Progress
    /\ []C15_NotAllBlocked
    /\ [][\A t \in Threads :
              (Holds(t) /\ ~Holds(t)') =>
                  /\ pc[t] \in {"m_unlock", "f_unlock"}
                  /\ pc'[t] \in {"m_connect", "f_release"}
                  /\ mutexes'[vips_tracked_mutex] = 0]_vars

\* the holder of the mutex is in a free that has warned of too many frees,
\* about to unlock, while another thread is in a call
C15_Witness ==
    \E t, u \in Threads :
        /\ pc[u] = "f_unlock" /\ Holds(u) /\ WarnFrees \in msgs[u]
        /\ t /= u /\ InFree(t)

====
